---- MODULE Spec2Model ----
(***************************************************************************)
(* Model of the completion client of ai-author-gui (src/src/apiService.ts):*)
(* the APIService class with its prompt cache, its single tracked          *)
(* AbortController, the atomic chatCompletion and the streaming            *)
(* chatCompletionStream.                                                   *)
(*                                                                         *)
(* Text is modelled as a sequence: message contents and the JSON payload   *)
(* hashed by generateCacheKey are sequences of UTF-16 code units; response *)
(* texts and stream bodies are sequences of one-symbol strings.  The empty *)
(* string is the empty sequence << >>.                                     *)
(***************************************************************************)
EXTENDS Integers, Sequences, FiniteSets, TLC

\* ------------------------------------------------------------------------
\* 32-bit integer arithmetic of generateCacheKey (hash << 5, hash & hash)
\* ------------------------------------------------------------------------

MaxInt32 == 2147483647

MinInt32 == (-2147483647) - 1

\* a + b reduced to a signed 32-bit integer (ToInt32 of the exact sum)
AddW(a, b) ==
  IF a >= 0 /\ b >= 0
  THEN IF a > MaxInt32 - b
       THEN ((a - MaxInt32) - 1) + ((b - MaxInt32) - 1)
       ELSE a + b
  ELSE IF a < 0 /\ b < 0
       THEN IF a < MinInt32 - b
            THEN ((a + MaxInt32) + 1) + ((b + MaxInt32) + 1)
            ELSE a + b
       ELSE a + b

NegW(a) == IF a = MinInt32 THEN MinInt32 ELSE 0 - a

\* hash << 5
Shl5(a) ==
  LET s1 == AddW(a, a)
      s2 == AddW(s1, s1)
      s3 == AddW(s2, s2)
      s4 == AddW(s3, s3)
  IN  AddW(s4, s4)

\* one round of the loop body: hash = ((hash << 5) - hash) + char; hash & hash
HashStep(hash, char) == AddW(AddW(Shl5(hash), NegW(hash)), char)

\* the loop body run for i = lo..hi in increasing order, starting from hash.
\* The range is halved and the hash of the first half is computed before the
\* second half starts (the CHOOSE binds it to a value), which keeps the
\* evaluation depth logarithmic in the length of the string.
RECURSIVE HashRange(_, _, _, _)
HashRange(jsonString, lo, hi, hash) ==
  IF lo > hi THEN hash
  ELSE IF lo = hi THEN HashStep(hash, jsonString[lo])
  ELSE CHOOSE r \in UNION {{HashRange(jsonString, mid + 1, hi, h) :
                               h \in {HashRange(jsonString, lo, mid, hash)}} :
                            mid \in {(lo + hi) \div 2}} : TRUE

\* let hash = 0; for (let i = 0; i < jsonString.length; i++) { ... }
HashOf(jsonString) == HashRange(jsonString, 1, Len(jsonString), 0)

\* ------------------------------------------------------------------------
\* JSON.stringify({messages, temperature: temperature ?? null})
\* ------------------------------------------------------------------------

LitOpen == <<123, 34, 109, 101, 115, 115, 97, 103, 101, 115, 34, 58, 91>>

LitTemperature == <<93, 44, 34, 116, 101, 109, 112, 101, 114, 97, 116, 117, 114, 101, 34, 58>>

LitNull == <<110, 117, 108, 108>>

LitClose == <<125>>

\* the three roles of the Message type, as code units
RoleCodes(role) ==
  CASE role = "system" -> <<115, 121, 115, 116, 101, 109>>
    [] role = "user" -> <<117, 115, 101, 114>>
    [] role = "assistant" -> <<97, 115, 115, 105, 115, 116, 97, 110, 116>>

\* JSON string escaping of one code unit (quote, backslash, newline)
EscapeChar(c) ==
  CASE c = 34 -> <<92, 34>>
    [] c = 92 -> <<92, 92>>
    [] c = 10 -> <<92, 110>>
    [] OTHER -> <<c>>

RECURSIVE EscapeString(_)
EscapeString(s) ==
  IF s = << >> THEN << >> ELSE EscapeChar(Head(s)) \o EscapeString(Tail(s))

RECURSIVE NatDigits(_)
NatDigits(n) ==
  IF n < 10 THEN <<48 + n>> ELSE NatDigits(n \div 10) \o <<48 + (n % 10)>>

\* a temperature is Undefined (argument absent), Num(n), n an integer, or
\* the number NaN
Undefined == [def |-> FALSE, finite |-> FALSE, val |-> 0]

Num(n) == [def |-> TRUE, finite |-> TRUE, val |-> n]

NaN == [def |-> TRUE, finite |-> FALSE, val |-> 0]

NumberToJSON(n) == IF n < 0 THEN <<45>> \o NatDigits(0 - n) ELSE NatDigits(n)

\* temperature ?? null, then JSON.stringify: null and the numbers that are
\* not finite are written as null
TemperatureToJSON(temperature) ==
  IF temperature.def /\ temperature.finite
  THEN NumberToJSON(temperature.val)
  ELSE LitNull

\* the two orders in which the properties of a Message object can have been
\* created
RoleFirst == <<"role", "content">>

ContentFirst == <<"content", "role">>

\* "name":"value" of one property of a message
LitRoleName == <<34, 114, 111, 108, 101, 34, 58, 34>>

LitContentName == <<34, 99, 111, 110, 116, 101, 110, 116, 34, 58, 34>>

PropertyToJSON(m, name) ==
  IF name = "role" THEN LitRoleName \o RoleCodes(m.role) \o <<34>>
  ELSE LitContentName \o EscapeString(m.content) \o <<34>>

\* JSON.stringify of a message writes its properties in creation order
MessageToJSON(m) ==
  <<123>> \o PropertyToJSON(m, m.keys[1]) \o <<44>>
    \o PropertyToJSON(m, m.keys[2]) \o <<125>>

RECURSIVE MessagesToJSON(_)
MessagesToJSON(messages) ==
  IF messages = << >> THEN << >>
  ELSE IF Len(messages) = 1 THEN MessageToJSON(messages[1])
  ELSE MessageToJSON(Head(messages)) \o <<44>> \o MessagesToJSON(Tail(messages))

StringifyPayload(messages, temperature) ==
  LitOpen \o MessagesToJSON(messages) \o LitTemperature
    \o TemperatureToJSON(temperature) \o LitClose

\* ------------------------------------------------------------------------
\* Math.abs(hash).toString(36).substring(0, 32)
\* ------------------------------------------------------------------------

Digits36 ==
  <<"0", "1", "2", "3", "4", "5", "6", "7", "8", "9", "a", "b", "c", "d", "e",
    "f", "g", "h", "i", "j", "k", "l", "m", "n", "o", "p", "q", "r", "s", "t",
    "u", "v", "w", "x", "y", "z">>

RECURSIVE Base36(_)
Base36(n) ==
  IF n < 36 THEN <<Digits36[n + 1]>>
  ELSE Base36(n \div 36) \o <<Digits36[(n % 36) + 1]>>

\* Math.abs(-2^31) is 2^31, "zik0zk" in base 36
AbsToString36(hash) ==
  IF hash = MinInt32 THEN <<"z", "i", "k", "0", "z", "k">>
  ELSE Base36(IF hash < 0 THEN 0 - hash ELSE hash)

Substring32(s) == IF Len(s) > 32 THEN SubSeq(s, 1, 32) ELSE s

generateCacheKey(messages, temperature) ==
  Substring32(AbsToString36(HashOf(StringifyPayload(messages, temperature))))

\* ------------------------------------------------------------------------
\* Requests the callers issue
\* ------------------------------------------------------------------------

User(content) == [role |-> "user", content |-> content, keys |-> RoleFirst]

\* the conversation "a"
MessageLists == {<<User(<<97>>)>>}

Temperatures == {Undefined, Num(0)}

\* model, baseUrl and apiKey of a call
Configs ==
  {[model |-> "gpt-4", baseUrl |-> "https://api.openai.com/v1", apiKey |-> "k1"],
   [model |-> "deepseek-chat", baseUrl |-> "https://api.deepseek.com/v1", apiKey |-> "k2"]}

AllRequests == [messages : MessageLists, temperature : Temperatures, config : Configs]

\* the requests issued: both providers without a temperature, and the first
\* provider with temperature 0
Requests ==
  {r : r \in {q \in AllRequests :
                q.temperature = Undefined \/ q.config.model = "gpt-4"}}

NoRequest == [none |-> TRUE]

\* generateCacheKey over the requests of the model, computed once
KeyTable ==
  [m \in MessageLists, t \in Temperatures |-> generateCacheKey(m, t)]

KeyOf(req) == KeyTable[req.messages, req.temperature]

\* ------------------------------------------------------------------------
\* Time: Date.now() in milliseconds since the session's epoch
\* ------------------------------------------------------------------------

TTLms == 24 * 60 * 60 * 1000

TickMs == 12 * 60 * 60 * 1000

MaxTicks == 2

\* ------------------------------------------------------------------------
\* The cache table (PromptCache) and its persisted blob
\* ------------------------------------------------------------------------

EmptyCache == << >>

CacheEntry(content, timestamp) == [content |-> content, timestamp |-> timestamp]

\* this.cache[key] = entry
CachePut(table, key, entry) ==
  [k \in (DOMAIN table) \cup {key} |-> IF k = key THEN entry ELSE table[k]]

\* localStorage item: absent, or the text written by JSON.stringify
NoItem == [kind |-> "absent"]

\* JSON.stringify(this.cache): one member per key, each {content, timestamp}
JSONStringify(table) ==
  [kind |-> "object",
   members |-> {<<k, table[k].content, table[k].timestamp>> : k \in DOMAIN table}]

\* stored texts that are no object blob: not JSON at all, or the JSON of
\* null, of a number, of a string
CorruptItem == [kind |-> "corrupt"]

NullItem == [kind |-> "null"]

NumberItem == [kind |-> "number"]

StoredString == <<"a", "b", "c">>

StringItem == [kind |-> "string"]

\* this.cache holding a value that is no object: the table with the one
\* reserved key <<kind>> stands for it
NotAnObject(kind) == [k \in {<<kind>>} |-> CacheEntry(<< >>, 0)]

IsNullCache(table) == <<"null">> \in DOMAIN table

IsPrimitiveCache(table) ==
  <<"number">> \in DOMAIN table \/ <<"string">> \in DOMAIN table

IsObjectCache(table) == ~IsNullCache(table) /\ ~IsPrimitiveCache(table)

\* JSON.parse(stored) of a blob that is JSON
JSONParse(blob) ==
  IF blob.kind # "object" THEN NotAnObject(blob.kind)
  ELSE [k \in {mem[1] : mem \in blob.members} |->
          LET mem == CHOOSE x \in blob.members : x[1] = k
          IN  CacheEntry(mem[2], mem[3])]

\* loadCache whose catch clause is missing: the failure leaves no table
loadCache_NoCatch(stored, throws) ==
  IF throws THEN NotAnObject("null")
  ELSE IF stored.kind = "absent" THEN EmptyCache
  ELSE IF stored.kind = "corrupt" THEN NotAnObject("null")
  ELSE JSONParse(stored)

\* loadCache: getItem, parse when present; any exception leaves {}
loadCache(stored, throws) ==
  IF throws THEN EmptyCache
  ELSE IF stored.kind = "absent" THEN EmptyCache
  ELSE IF stored.kind = "corrupt" THEN EmptyCache
  ELSE JSONParse(stored)

\* saveCache: setItem(JSON.stringify(cache)); an exception is swallowed
saveCache(table, stored, throws) ==
  IF throws THEN stored ELSE JSONStringify(table)

\* a JavaScript value that is a string or null
Str(s) == [type |-> "string", s |-> s]

Null == [type |-> "null"]

\* the evaluation threw a TypeError instead of producing a value
Throws == [type |-> "throws"]

\* JavaScript truthiness of a string-or-null value: null and "" are falsy
Truthy(v) == v.type = "string" /\ v.s # << >>

\* getCachedResponse with <= for <: an entry aged exactly 24h is still served
getCachedResponse_LaxAge(table, req, time) ==
  IF KeyOf(req) \in DOMAIN table
     /\ time - table[KeyOf(req)].timestamp <= TTLms
  THEN Str(table[KeyOf(req)].content)
  ELSE Null

\* getCachedResponse: the entry's content when the entry exists and
\* Date.now() - entry.timestamp < 24h, else null; this.cache[key] throws
\* when this.cache is null
getCachedResponse(table, req, time) ==
  IF IsNullCache(table) THEN Throws
  ELSE IF KeyOf(req) \in DOMAIN table
     /\ time - table[KeyOf(req)].timestamp < TTLms
  THEN Str(table[KeyOf(req)].content)
  ELSE Null

\* setCachedResponse merging into an existing entry: the old timestamp stays
setCachedResponse_Merge(table, req, content, time) ==
  CachePut(table, KeyOf(req),
           CacheEntry(content,
                      IF KeyOf(req) \in DOMAIN table
                      THEN table[KeyOf(req)].timestamp ELSE time))

\* setCachedResponse, in-memory part: this.cache[key] = {content, timestamp}
setCachedResponse(table, req, content, time) ==
  CachePut(table, KeyOf(req), CacheEntry(content, time))

\* ------------------------------------------------------------------------
\* The streaming wire format and its decoding (chatCompletionStream)
\* ------------------------------------------------------------------------
\* A response text is a sequence of symbols.  "{" stands for the opening
\* {"choices":[{"delta":{"content":" of a delta object, "}" for its closing
\* "}}]} and "{}" for a complete JSON object without choices; the letters are
\* the characters of the content.

NL == "\n"

DataPrefix == <<"d", "a", "t", "a", ":", " ">>

DoneToken == <<"[", "D", "O", "N", "E", "]">>

ContentSymbols == {"A", "B", "C"}

DeltaPayload(text) == <<"{">> \o text \o <<"}">>

DataLine(payload) == DataPrefix \o payload \o <<NL>>

\* String.prototype.split('\n')
HasNL(s) == \E i \in 1..Len(s) : s[i] = NL

FirstNL(s) == CHOOSE i \in 1..Len(s) : s[i] = NL /\ \A j \in 1..(i - 1) : s[j] # NL

RECURSIVE Split(_)
Split(s) ==
  IF ~HasNL(s) THEN <<s>>
  ELSE <<SubSeq(s, 1, FirstNL(s) - 1)>> \o Split(SubSeq(s, FirstNL(s) + 1, Len(s)))

\* const lines = buffer.split('\n'); buffer = lines.pop() || ''
SplitLines(buffer) == SubSeq(Split(buffer), 1, Len(Split(buffer)) - 1)

\* a decoder that keeps no incomplete line between reads
SplitRest_Drops(buffer) == << >>

SplitRest(buffer) == Split(buffer)[Len(Split(buffer))]

\* line.startsWith('data: ') and line.slice(6)
StartsWithData(line) == Len(line) >= 6 /\ SubSeq(line, 1, 6) = DataPrefix

\* line.slice(5): the blank after the colon stays in front of the payload
Slice6_OffByOne(line) == SubSeq(line, 6, Len(line))

Slice6(line) == SubSeq(line, 7, Len(line))

\* JSON.parse(data) followed by parsed.choices?.[0]?.delta?.content:
\* "throws" when data is not JSON, "undefined" without a delta content,
\* else the content string
IsDeltaObject(data) ==
  /\ Len(data) >= 2
  /\ data[1] = "{"
  /\ data[Len(data)] = "}"
  /\ \A i \in 2..(Len(data) - 1) : data[i] \in ContentSymbols

\* a decoder that takes a payload that is not JSON as the content itself
ParseDelta_EmitsRaw(data) ==
  IF data = <<"{}">> THEN [type |-> "undefined"]
  ELSE IF IsDeltaObject(data) THEN Str(SubSeq(data, 2, Len(data) - 1))
  ELSE Str(data)

ParseDelta(data) ==
  IF data = <<"{}">> THEN [type |-> "undefined"]
  ELSE IF IsDeltaObject(data) THEN Str(SubSeq(data, 2, Len(data) - 1))
  ELSE [type |-> "throws"]

\* The for-loop over the lines of one read, run until it suspends or leaves:
\* st = "yield" at a yield (rest are the lines still to process), "sentinel"
\* at data: [DONE], "read" when the lines are exhausted.  full is fullContent,
\* n counts the content deltas seen so far, throwAt is the delta at which
\* the caller's onChunk throws (0: never), and called lists the contents
\* onChunk was called with.
RECURSIVE ProcessLines(_, _, _, _, _)
ProcessLines(lines, full, n, throwAt, called) ==
  IF lines = << >>
  THEN [st |-> "read", full |-> full, rest |-> << >>, n |-> n,
        chunk |-> << >>, called |-> called]
  ELSE IF ~StartsWithData(Head(lines))
  THEN ProcessLines(Tail(lines), full, n, throwAt, called)
  ELSE IF Slice6(Head(lines)) = DoneToken
  THEN [st |-> "sentinel", full |-> full, rest |-> << >>, n |-> n,
        chunk |-> << >>, called |-> called]
  ELSE IF ~Truthy(ParseDelta(Slice6(Head(lines))))
  THEN ProcessLines(Tail(lines), full, n, throwAt, called)
  ELSE IF n + 1 = throwAt
  THEN ProcessLines(Tail(lines), full \o ParseDelta(Slice6(Head(lines))).s,
                    n + 1, throwAt,
                    Append(called, ParseDelta(Slice6(Head(lines))).s))
  ELSE [st |-> "yield", full |-> full \o ParseDelta(Slice6(Head(lines))).s,
        rest |-> Tail(lines), n |-> n + 1,
        chunk |-> ParseDelta(Slice6(Head(lines))).s,
        called |-> Append(called, ParseDelta(Slice6(Head(lines))).s)]

\* response bodies of the provider, each a sequence of reads
FullBody ==
  DataLine(DeltaPayload(<<"A">>)) \o <<NL>> \o DataLine(DeltaPayload(<<"B">>))
    \o <<NL>> \o DataLine(DoneToken) \o <<NL>>

StreamBodies ==
  {<<FullBody>>,
   <<SubSeq(FullBody, 1, 8), SubSeq(FullBody, 9, Len(FullBody))>>,
   <<DataLine(DeltaPayload(<<"A">>))>>,
   << >>}

\* atomic response bodies of the provider: not JSON, JSON without a choices
\* field, or JSON with choices
Choice(hasMessage, content) == [hasMessage |-> hasMessage, content |-> content]

AtomicBodies ==
  {[json |-> FALSE, hasChoices |-> FALSE, choices |-> << >>],
   [json |-> TRUE, hasChoices |-> FALSE, choices |-> << >>],
   [json |-> TRUE, hasChoices |-> TRUE, choices |-> << >>],
   [json |-> TRUE, hasChoices |-> TRUE, choices |-> <<Choice(FALSE, Null)>>],
   [json |-> TRUE, hasChoices |-> TRUE, choices |-> <<Choice(TRUE, Null)>>],
   [json |-> TRUE, hasChoices |-> TRUE,
    choices |-> <<Choice(TRUE, Str(<<"A", "B">>))>>],
   [json |-> TRUE, hasChoices |-> TRUE,
    choices |-> <<Choice(TRUE, Str(<<"A">>)), Choice(TRUE, Str(<<"B">>))>>]}

\* the atomic response of a provider whose answer is text
AtomicBodyOf(text) ==
  [json |-> TRUE, hasChoices |-> TRUE, choices |-> <<Choice(TRUE, Str(text))>>]

\* data.choices[0]?.message?.content || ''   (data.choices is an array here)
ExtractContent(data) ==
  IF data.choices = << >> THEN << >>
  ELSE IF ~data.choices[1].hasMessage THEN << >>
  ELSE IF ~Truthy(data.choices[1].content) THEN << >>
  ELSE data.choices[1].content.s

\* ------------------------------------------------------------------------
\* State
\* ------------------------------------------------------------------------

\* the completion calls that can be outstanding at the same time
Slots == {1, 2}

VARIABLES
  cache,              \* this.cache
  storage,            \* localStorage item under this.cacheKey
  storageThrows,      \* the storage backend throws on every access
  now,                \* Date.now()
  currentController,  \* this.currentController: 0 is null, else the slot of
                      \* the call whose AbortController it is
  calls,              \* per slot: the position and locals of the call
  latest,             \* the slot of the call that created a controller last
  ret,                \* what the last step handed to a caller: the value a
                      \* public method returned, or the outcome of the
                      \* completion call that settled
  workflowState,      \* App: the React state workflowState
  runs,               \* App: per slot, the invocation of processStep or
                      \* processChapter that awaits the call of the slot
  timers              \* App: the timeouts of handleFeedback and
                      \* handleChapterFeedback that have not fired

vars ==
  <<cache, storage, storageThrows, now, currentController, calls, latest, ret,
    workflowState, runs, timers>>

NoError == [message |-> "none", cause |-> "none", status |-> 0, body |-> << >>]

\* the TypeError of a property access or assignment on a this.cache that is
\* no object, as thrown and as the cause of a wrapped failure
CacheTypeError == "TypeError: this.cache"

RawTypeError ==
  [message |-> CacheTypeError, cause |-> CacheTypeError, status |-> 0,
   body |-> << >>]

\* throw new Error('Request was cancelled')
Cancelled ==
  [message |-> "Request was cancelled", cause |-> "AbortError", status |-> 0,
   body |-> << >>]

\* throw new Error(`API request failed: ${error}`) and its streaming twin
Failed(mode, cause) ==
  [message |-> IF mode = "atomic" THEN "API request failed"
               ELSE "Streaming API request failed",
   cause |-> cause, status |-> 0, body |-> << >>]

\* the cause of a failure thrown for a response that is not ok
HttpFailures == {"HTTP error!"}

\* responses that are not ok: response.status and the text of the body
HttpResponses ==
  {[status |-> 500, body |-> <<"overloaded">>], [status |-> 401, body |-> << >>]}

\* an HTTP failure whose message leaves out the text of the body
HttpFailed_NoBody(mode, status, errorText) ==
  [Failed(mode, "HTTP error!") EXCEPT !.status = status]

\* new Error(`HTTP error! status: ${response.status}, body: ${errorText}`) as
\* the catch clause wraps it: the message carries the status and the text
HttpFailed(mode, status, errorText) ==
  [Failed(mode, "HTTP error!") EXCEPT !.status = status, !.body = errorText]

IdleCall ==
  [pc |-> "idle", mode |-> "none", req |-> NoRequest, aborted |-> FALSE,
   second |-> FALSE, body |-> << >>, buffer |-> << >>, lines |-> << >>,
   fullContent |-> << >>, n |-> 0, throwAt |-> 0, stream |-> << >>,
   yielded |-> << >>, called |-> << >>, status |-> 0, cleared |-> FALSE]

\* a call is awaiting the network: fetch, response.text(), response.json()
\* or reader.read()
Awaiting(call) == call.pc \in {"fetch", "text", "json", "read"}

\* a call that created a controller and has not yet returned or thrown
InFlight(call) == call.pc \in {"fetch", "text", "json", "read", "yield"}

\* a new call takes the first slot that is free
FreeSlot(c) ==
  /\ calls[c].pc = "idle"
  /\ \A d \in Slots : d < c => calls[d].pc # "idle"

\* nothing was handed to a caller by this step
NoRet ==
  [op |-> "none", slot |-> 0, req |-> NoRequest, outcome |-> "none",
   result |-> << >>, error |-> NoError, net |-> FALSE, wrote |-> FALSE,
   aborted |-> FALSE, second |-> FALSE, value |-> << >>, stream |-> << >>,
   yielded |-> << >>, called |-> << >>, end |-> "none", throwAt |-> 0,
   cleared |-> FALSE]

\* a synchronous public method returned value
Returned(op, value) == [NoRet EXCEPT !.op = op, !.value = value]

\* the completion call in slot c settled: outcome is "ok" with the text in
\* result, "cancelled" or "failed" with the Error in error; net tells whether
\* it had issued a fetch, wrote whether it ran setCachedResponse, aborted
\* whether its controller was aborted, second whether another call was
\* outstanding when it created its controller; of a streaming call, stream
\* is the response body as its reads delivered it, yielded the chunks it
\* yielded, called the contents it passed to onChunk, throwAt the delta at
\* which onChunk threw, and end tells whether it returned at the "sentinel"
\* or at the end of the body ("eof"); cleared tells whether clearCache ran
\* while the call was outstanding
Settled(c, mode, req, outcome, result, error, net, wrote) ==
  [op |-> mode, slot |-> c, req |-> req, outcome |-> outcome,
   result |-> result, error |-> error, net |-> net, wrote |-> wrote,
   aborted |-> calls[c].aborted, second |-> calls[c].second, value |-> << >>,
   stream |-> calls[c].stream, yielded |-> calls[c].yielded,
   called |-> calls[c].called, end |-> "none", throwAt |-> calls[c].throwAt,
   cleared |-> calls[c].cleared]

\* persisted cache items a previous session can have left behind
PreviousItems ==
  {NoItem,
   JSONStringify(CachePut(EmptyCache, KeyTable[<<User(<<97>>)>>, Undefined],
                          CacheEntry(<<"A", "B">>, 0)))}

\* what the App runs for: a workflow step or a chapter
Kinds == {"step", "chapter"}

\* no invocation of processStep or processChapter awaits the call of a slot
NoRun == [kind |-> "none", fallback |-> FALSE, cancelled |-> FALSE]

\* useState<WorkflowState>({...}): config.stream, isProcessing, error
\* ("none" is undefined) and the completed flags of the step and the
\* chapter
InitialWorkflowState(stream) ==
  [stream |-> stream, isProcessing |-> FALSE, error |-> "none",
   completed |-> [k \in Kinds |-> FALSE]]

\* the App as it is mounted
AppInit ==
  /\ workflowState = InitialWorkflowState(TRUE)
  /\ runs = [c \in Slots |-> NoRun]
  /\ timers = {}

\* a step of the client that no handler of the App takes part in
Client(A) == A /\ UNCHANGED <<workflowState, runs, timers>>

\* the module singleton: new APIService() runs loadCache()
Init ==
  /\ storageThrows \in BOOLEAN
  /\ storage \in PreviousItems
  /\ cache = loadCache(storage, storageThrows)
  /\ now = 0
  /\ currentController = 0
  /\ calls = [c \in Slots |-> IdleCall]
  /\ latest = 0
  /\ ret = NoRet
  /\ AppInit

\* a failing call that caches the text accumulated so far before it throws
Throw_CachesPartial(c, error) ==
  /\ calls' = [calls EXCEPT ![c] = IdleCall]
  /\ ret' = Settled(c, calls[c].mode, calls[c].req,
                    IF error = Cancelled THEN "cancelled" ELSE "failed",
                    << >>, error, TRUE, FALSE)
  /\ currentController' = 0
  /\ cache' = setCachedResponse(cache, calls[c].req, calls[c].fullContent, now)
  /\ UNCHANGED <<storage, storageThrows, now, latest>>

\* the catch and finally clauses of a failing call: the error is thrown and
\* this.currentController is set to null
Throw(c, error) ==
  /\ calls' = [calls EXCEPT ![c] = IdleCall]
  /\ ret' = Settled(c, calls[c].mode, calls[c].req,
                    IF error = Cancelled THEN "cancelled" ELSE "failed",
                    << >>, error, TRUE, FALSE)
  /\ currentController' = 0
  /\ UNCHANGED <<cache, storage, storageThrows, now, latest>>

\* a successful return whose finally clause leaves this.currentController set
ReturnAndCache_KeepsController(c, content) ==
  /\ cache' = setCachedResponse(cache, calls[c].req, content, now)
  /\ storage' = saveCache(setCachedResponse(cache, calls[c].req, content, now),
                          storage, storageThrows)
  /\ calls' = [calls EXCEPT ![c] = IdleCall]
  /\ ret' = Settled(c, calls[c].mode, calls[c].req, "ok", content, NoError,
                    TRUE, TRUE)
  /\ UNCHANGED <<storageThrows, now, latest, currentController>>

\* setCachedResponse(messages, temperature, content); return content; finally;
\* the assignment this.cache[key] = ... throws when this.cache is no object
ReturnAndCache(c, content) ==
  IF ~IsObjectCache(cache) THEN Throw(c, Failed(calls[c].mode, CacheTypeError))
  ELSE
  /\ cache' = setCachedResponse(cache, calls[c].req, content, now)
  /\ storage' = saveCache(setCachedResponse(cache, calls[c].req, content, now),
                          storage, storageThrows)
  /\ calls' = [calls EXCEPT ![c] = IdleCall]
  /\ ret' = Settled(c, calls[c].mode, calls[c].req, "ok", content, NoError,
                    TRUE, TRUE)
  /\ currentController' = 0
  /\ UNCHANGED <<storageThrows, now, latest>>

\* a streaming call that returns its text without caching it
StreamReturn_NoWrite(c, content, called, end) ==
  /\ calls' = [calls EXCEPT ![c] = IdleCall]
  /\ ret' = [Settled(c, "stream", calls[c].req, "ok", content, NoError,
                     TRUE, FALSE)
               EXCEPT !.called = called, !.end = end]
  /\ currentController' = 0
  /\ UNCHANGED <<cache, storage, storageThrows, now, latest>>

\* the two returns of chatCompletionStream: setCachedResponse(fullContent),
\* return fullContent, finally; the line loop may have called onChunk in the
\* same step
StreamReturn(c, content, called, end) ==
  IF ~IsObjectCache(cache)
  THEN /\ calls' = [calls EXCEPT ![c] = IdleCall]
       /\ ret' = [Settled(c, "stream", calls[c].req, "failed", << >>,
                          Failed("stream", CacheTypeError), TRUE, FALSE)
                    EXCEPT !.called = called]
       /\ currentController' = 0
       /\ UNCHANGED <<cache, storage, storageThrows, now, latest>>
  ELSE
  /\ cache' = setCachedResponse(cache, calls[c].req, content, now)
  /\ storage' = saveCache(setCachedResponse(cache, calls[c].req, content, now),
                          storage, storageThrows)
  /\ calls' = [calls EXCEPT ![c] = IdleCall]
  /\ ret' = [Settled(c, "stream", calls[c].req, "ok", content, NoError,
                     TRUE, TRUE)
               EXCEPT !.called = called, !.end = end]
  /\ currentController' = 0
  /\ UNCHANGED <<storageThrows, now, latest>>

\* this.currentController = new AbortController(), then fetch is issued
NewCall(c, mode, req, throwAt) ==
  [IdleCall EXCEPT !.pc = "fetch", !.mode = mode, !.req = req,
                   !.throwAt = throwAt,
                   !.second = \E d \in Slots \ {c} : InFlight(calls[d])]

\* ------------------------------------------------------------------------
\* chatCompletion
\* ------------------------------------------------------------------------

\* entry: the cache check; a hit returns at once, a miss creates the
\* controller and issues the fetch
chatCompletion(c, req) ==
  /\ FreeSlot(c)
  /\ UNCHANGED <<cache, storage, storageThrows, now>>
  /\ IF getCachedResponse(cache, req, now) = Throws
     THEN /\ UNCHANGED <<calls, currentController, latest>>
          /\ ret' = Settled(c, "atomic", req, "failed", << >>, RawTypeError,
                            FALSE, FALSE)
     ELSE IF Truthy(getCachedResponse(cache, req, now))
     THEN /\ UNCHANGED <<calls, currentController, latest>>
          /\ ret' = Settled(c, "atomic", req, "ok",
                            getCachedResponse(cache, req, now).s, NoError,
                            FALSE, FALSE)
     ELSE /\ currentController' = c
          /\ latest' = c
          /\ calls' = [calls EXCEPT ![c] = NewCall(c, "atomic", req, 0)]
          /\ ret' = NoRet

\* await fetch(...) resolves with a response
AtomicResponse(c) ==
  /\ calls[c].mode = "atomic"
  /\ calls[c].pc = "fetch"
  /\ ~calls[c].aborted
  /\ \/ calls' = [calls EXCEPT ![c].pc = "json"]
     \/ \E r \in HttpResponses :
          calls' = [calls EXCEPT ![c].pc = "text", ![c].status = r.status,
                                 ![c].body = r.body]
  /\ ret' = NoRet
  /\ UNCHANGED <<cache, storage, storageThrows, now, currentController, latest>>

\* await response.json() resolves or rejects; extraction, cache write, return
AtomicJsonWith(c, data) ==
  /\ calls[c].mode = "atomic"
  /\ calls[c].pc = "json"
  /\ ~calls[c].aborted
  /\ IF ~data.json THEN Throw(c, Failed("atomic", "SyntaxError"))
     ELSE IF ~data.hasChoices THEN Throw(c, Failed("atomic", "TypeError"))
     ELSE ReturnAndCache(c, ExtractContent(data))

AtomicJson(c) == \E data \in AtomicBodies : AtomicJsonWith(c, data)

\* !response.ok: await response.text(), throw the HTTP error (both modes)
HttpError(c) ==
  /\ calls[c].pc = "text"
  /\ ~calls[c].aborted
  /\ Throw(c, HttpFailed(calls[c].mode, calls[c].status, calls[c].body))

\* the transport fails while the call awaits it (both modes)
NetworkFailure(c) ==
  /\ Awaiting(calls[c])
  /\ ~calls[c].aborted
  /\ Throw(c, Failed(calls[c].mode, "TypeError: Failed to fetch"))

\* the awaited operation rejects with AbortError after controller.abort()
AbortError(c) ==
  /\ Awaiting(calls[c])
  /\ calls[c].aborted
  /\ Throw(c, Cancelled)

\* ------------------------------------------------------------------------
\* chatCompletionStream
\* ------------------------------------------------------------------------

\* the deltas at which the caller's onChunk throws (0: never)
OnChunkThrowsAt == {0, 2}

\* first next(): no cache check, the controller and the fetch
\* chatCompletionStream with the cache check of chatCompletion in front
chatCompletionStream_ChecksCache(c, req, throwAt) ==
  /\ FreeSlot(c)
  /\ IF Truthy(getCachedResponse(cache, req, now))
     THEN /\ ret' = Settled(c, "stream", req, "ok",
                            getCachedResponse(cache, req, now).s, NoError,
                            FALSE, FALSE)
          /\ UNCHANGED <<calls, currentController, latest>>
     ELSE /\ calls' = [calls EXCEPT ![c] = NewCall(c, "stream", req, throwAt)]
          /\ currentController' = c
          /\ latest' = c
          /\ ret' = NoRet
  /\ UNCHANGED <<cache, storage, storageThrows, now>>

\* entry: no cache check; the controller is created and the fetch issued
chatCompletionStream(c, req, throwAt) ==
  /\ FreeSlot(c)
  /\ currentController' = c
  /\ latest' = c
  /\ calls' = [calls EXCEPT ![c] = NewCall(c, "stream", req, throwAt)]
  /\ ret' = NoRet
  /\ UNCHANGED <<cache, storage, storageThrows, now>>

\* await fetch(...) resolves: an error status, no readable body, or a body
\* out of bodies
StreamResponseFrom(c, bodies) ==
  /\ calls[c].mode = "stream"
  /\ calls[c].pc = "fetch"
  /\ ~calls[c].aborted
  /\ \/ /\ \E r \in HttpResponses :
             calls' = [calls EXCEPT ![c].pc = "text", ![c].status = r.status,
                                    ![c].body = r.body]
        /\ ret' = NoRet
        /\ UNCHANGED <<cache, storage, storageThrows, now, currentController, latest>>
     \/ Throw(c, Failed("stream", "Error: Response body is not readable"))
     \/ /\ \E body \in bodies :
             calls' = [calls EXCEPT ![c].pc = "read", ![c].body = body,
                                    ![c].stream = body]
        /\ ret' = NoRet
        /\ UNCHANGED <<cache, storage, storageThrows, now, currentController, latest>>

StreamResponse(c) == StreamResponseFrom(c, StreamBodies)

\* what the line loop leaves behind: suspended at a yield, returned at the
\* sentinel, or back at reader.read()
AfterLines(c, r, buffer, body) ==
  IF r.st = "sentinel" THEN StreamReturn(c, r.full, r.called, "sentinel")
  ELSE /\ calls' = [calls EXCEPT ![c].pc = r.st, ![c].lines = r.rest,
                                 ![c].fullContent = r.full, ![c].n = r.n,
                                 ![c].buffer = buffer, ![c].body = body,
                                 ![c].called = r.called,
                                 ![c].yielded =
                                   IF r.st = "yield" THEN Append(@, r.chunk)
                                   ELSE @]
       /\ ret' = NoRet
       /\ UNCHANGED <<cache, storage, storageThrows, now, currentController, latest>>

\* await reader.read() resolves: done ends the loop, caches and returns;
\* a value is appended to the buffer, split, and its lines are processed
StreamRead(c) ==
  /\ calls[c].mode = "stream"
  /\ calls[c].pc = "read"
  /\ ~calls[c].aborted
  /\ IF calls[c].body = << >>
     THEN StreamReturn(c, calls[c].fullContent, calls[c].called, "eof")
     ELSE AfterLines(c,
            ProcessLines(SplitLines(calls[c].buffer \o Head(calls[c].body)),
                         calls[c].fullContent, calls[c].n, calls[c].throwAt,
                         calls[c].called),
            SplitRest(calls[c].buffer \o Head(calls[c].body)),
            Tail(calls[c].body))

\* the consumer asks for the next chunk: the line loop resumes after the yield
StreamResume(c) ==
  /\ calls[c].pc = "yield"
  /\ AfterLines(c,
       ProcessLines(calls[c].lines, calls[c].fullContent, calls[c].n,
                    calls[c].throwAt, calls[c].called),
       calls[c].buffer, calls[c].body)

\* ------------------------------------------------------------------------
\* The other public methods and the clock
\* ------------------------------------------------------------------------

\* cancelCurrentRequest that forgets the controller without calling abort()
cancelCurrentRequest_OnlyForgets ==
  /\ currentController' = 0
  /\ ret' = Returned("cancelCurrentRequest", << >>)
  /\ UNCHANGED <<cache, storage, storageThrows, now, calls, latest>>

\* if (this.currentController) { abort(); this.currentController = null }
cancelCurrentRequest ==
  /\ IF currentController # 0
     THEN /\ calls' = [calls EXCEPT ![currentController].aborted = TRUE]
          /\ currentController' = 0
     ELSE UNCHANGED <<calls, currentController>>
  /\ ret' = Returned("cancelCurrentRequest", << >>)
  /\ UNCHANGED <<cache, storage, storageThrows, now, latest>>

isRequestInProgress ==
  /\ ret' = Returned("isRequestInProgress", <<currentController # 0>>)
  /\ UNCHANGED <<cache, storage, storageThrows, now, currentController, calls, latest>>

\* Object.keys(this.cache).length: throws on null, counts the characters of
\* a string, 0 for a number
getCacheSize ==
  /\ ret' = IF IsNullCache(cache)
            THEN [Returned("getCacheSize", << >>)
                    EXCEPT !.outcome = "failed", !.error = RawTypeError]
            ELSE IF <<"string">> \in DOMAIN cache
            THEN Returned("getCacheSize", <<Len(StoredString)>>)
            ELSE IF <<"number">> \in DOMAIN cache
            THEN Returned("getCacheSize", <<0>>)
            ELSE Returned("getCacheSize", <<Cardinality(DOMAIN cache)>>)
  /\ UNCHANGED <<cache, storage, storageThrows, now, currentController, calls, latest>>

\* a clear that removes the stored item and keeps the table in memory
clearCache_KeepsTable ==
  /\ storage' = IF storageThrows THEN storage ELSE NoItem
  /\ ret' = Returned("clearCache",
                     <<IF storageThrows THEN "threw" ELSE "returned">>)
  /\ UNCHANGED <<cache, storageThrows, now, currentController, calls, latest>>

\* this.cache = {}; localStorage.removeItem(this.cacheKey), which may throw
clearCache ==
  /\ cache' = EmptyCache
  /\ storage' = IF storageThrows THEN storage ELSE NoItem
  /\ ret' = Returned("clearCache",
                     <<IF storageThrows THEN "threw" ELSE "returned">>)
  /\ calls' = [c \in Slots |->
                IF InFlight(calls[c]) THEN [calls[c] EXCEPT !.cleared = TRUE]
                ELSE calls[c]]
  /\ UNCHANGED <<storageThrows, now, currentController, latest>>

\* GET {baseUrl}/models: the ids of data.data, [] without it, or a failure
ModelLists == {<<"gpt-4", "gpt-3.5-turbo">>, << >>}

fetchAvailableModels ==
  /\ \/ \E ids \in ModelLists : ret' = Returned("fetchAvailableModels", ids)
     \/ ret' = Returned("fetchAvailableModels",
                        <<"Failed to fetch available models">>)
  /\ UNCHANGED <<cache, storage, storageThrows, now, currentController, calls, latest>>

\* time passes
Tick ==
  /\ now < MaxTicks * TickMs
  /\ now' = now + TickMs
  /\ ret' = NoRet
  /\ UNCHANGED <<cache, storage, storageThrows, currentController, calls, latest>>

\* the steps of the client when its callers use the slots of S, issue the
\* requests of R and pass onChunk callbacks that throw at the deltas of T
Step(S, R, T) ==
  \/ \E c \in S, req \in R : Client(chatCompletion(c, req))
  \/ \E c \in S : Client(AtomicResponse(c))
  \/ \E c \in S : Client(AtomicJson(c))
  \/ \E c \in S : Client(HttpError(c))
  \/ \E c \in S : Client(NetworkFailure(c))
  \/ \E c \in S : Client(AbortError(c))
  \/ \E c \in S, req \in R, throwAt \in T :
       Client(chatCompletionStream(c, req, throwAt))
  \/ \E c \in S : Client(StreamResponse(c))
  \/ \E c \in S : Client(StreamRead(c))
  \/ \E c \in S : Client(StreamResume(c))
  \/ Client(cancelCurrentRequest)
  \/ Client(isRequestInProgress)
  \/ Client(getCacheSize)
  \/ Client(clearCache)
  \/ Client(fetchAvailableModels)

\* one caller at a time, time passing
Next == Step({1}, Requests, OnChunkThrowsAt) \/ Client(Tick)

Spec == Init /\ [][Next]_vars

\* overlapping calls with the same request, within one tick of the clock
ConcRequests ==
  {r \in Requests : r.temperature = Undefined /\ r.config.model = "gpt-4"}

NextConc == Step(Slots, ConcRequests, {0})

SpecConc == Init /\ [][NextConc]_vars

\* ------------------------------------------------------------------------
\* The App: processStep, processChapter, the feedback handlers and cancel
\* ------------------------------------------------------------------------

\* the call of slot c settled and an invocation of processStep or
\* processChapter awaits it: its continuation runs before anything else
Resumes(c) ==
  ret.op \in {"atomic", "stream"} /\ ret.slot = c /\ runs[c].kind # "none"

\* no continuation is due and no for await loop is about to ask for the next
\* chunk: the event loop takes the next event
EventLoopIdle ==
  \A c \in Slots : ~Resumes(c) /\ (runs[c].kind # "none" => calls[c].pc # "yield")

\* an invocation ended: what it ended with ("completed", "cancelled" or
\* "failed") and whether the user had cancelled it
RunEnded(kind, outcome, cancelled) ==
  [NoRet EXCEPT !.op = kind, !.outcome = outcome, !.aborted = cancelled]

\* processStep / processChapter from the setWorkflowState after the guard to
\* the first await: isProcessing is set, error is cleared, a step's
\* completed flag is reset, and the request is issued with
\* chatCompletionStream when config.stream is set, else with chatCompletion
StartRun(kind, c) ==
  /\ workflowState' =
       [workflowState EXCEPT
          !.isProcessing = TRUE, !.error = "none",
          !.completed[kind] = IF kind = "step" THEN FALSE ELSE @]
  /\ runs' = [runs EXCEPT ![c] = [NoRun EXCEPT !.kind = kind]]
  /\ \E req \in ConcRequests :
       IF workflowState.stream THEN chatCompletionStream(c, req, 0)
       ELSE chatCompletion(c, req)

\* the user presses Process Step: if (workflowState.isProcessing) return
processStep(c) ==
  /\ EventLoopIdle
  /\ ~workflowState.isProcessing
  /\ StartRun("step", c)
  /\ UNCHANGED timers

\* the user presses Write Chapter: if (workflowState.isProcessing) return
processChapter(c) ==
  /\ EventLoopIdle
  /\ ~workflowState.isProcessing
  /\ StartRun("chapter", c)
  /\ UNCHANGED timers

\* the timeouts that may be pending at once
MaxTimers == 1

\* handleFeedback / handleChapterFeedback: setTimeout(() => processStep(id),
\* 500) with the processStep (processChapter) of the current render, whose
\* closure holds the isProcessing of that render
handleFeedback(kind) ==
  /\ EventLoopIdle
  /\ Cardinality(timers) < MaxTimers
  /\ timers' = timers \cup {[kind |-> kind,
                              isProcessing |-> workflowState.isProcessing]}
  /\ ret' = NoRet
  /\ UNCHANGED <<cache, storage, storageThrows, now, currentController, calls,
                 latest, workflowState, runs>>

\* the timeout fires: the captured processStep (processChapter) returns when
\* the isProcessing it captured is set, else it runs
TimerFires(t, c) ==
  /\ EventLoopIdle
  /\ t \in timers
  /\ timers' = timers \ {t}
  /\ IF t.isProcessing
     THEN /\ c = 1
          /\ ret' = NoRet
          /\ UNCHANGED <<cache, storage, storageThrows, now, currentController,
                         calls, latest, workflowState, runs>>
     ELSE StartRun(t.kind, c)

\* the messages of the errors that the App reports for a cancellation
StepCancelled == "Step processing was cancelled"

ChapterCancelled == "Chapter generation was cancelled"

CancelledByUser == "Request was cancelled by user"

\* the user presses Cancel (shown while isProcessing or the chapter's
\* isProcessing is set): apiService.cancelCurrentRequest(), then isProcessing
\* is reset and the error is set; the invocations in progress are marked as
\* cancelled by the user
AppCancelCurrentRequest ==
  /\ EventLoopIdle
  /\ workflowState.isProcessing \/ \E c \in Slots : runs[c].kind = "chapter"
  /\ cancelCurrentRequest
  /\ workflowState' =
       [workflowState EXCEPT !.isProcessing = FALSE, !.error = CancelledByUser]
  /\ runs' = [c \in Slots |->
               IF runs[c].kind # "none" THEN [runs[c] EXCEPT !.cancelled = TRUE]
               ELSE runs[c]]
  /\ UNCHANGED timers

\* the step or chapter is marked completed and isProcessing is reset
\* (error is left as it is)
MarkCompleted(c) ==
  /\ workflowState' =
       [workflowState EXCEPT !.completed[runs[c].kind] = TRUE,
                             !.isProcessing = FALSE]
  /\ runs' = [runs EXCEPT ![c] = NoRun]
  /\ ret' = RunEnded(runs[c].kind, "completed", runs[c].cancelled)
  /\ UNCHANGED <<cache, storage, storageThrows, now, currentController, calls,
                 latest, timers>>

\* the for await loop ended: the generator returned
StreamCompleted(c) ==
  /\ Resumes(c)
  /\ ret.op = "stream"
  /\ ret.outcome = "ok"
  /\ MarkCompleted(c)

\* the generator threw, whatever the error: the inner catch falls back to
\* chatCompletion with the same messages, which takes slot d
StreamFallback(c, d) ==
  /\ Resumes(c)
  /\ ret.op = "stream"
  /\ ret.outcome # "ok"
  /\ chatCompletion(d, ret.req)
  /\ runs' = [x \in Slots |->
               IF x = d THEN [runs[c] EXCEPT !.fallback = TRUE]
               ELSE IF x = c THEN NoRun ELSE runs[x]]
  /\ UNCHANGED <<workflowState, timers>>

\* await apiService.chatCompletion(...) returned, in the fallback or with
\* config.stream unset
CompletionReturned(c) ==
  /\ Resumes(c)
  /\ ret.op = "atomic"
  /\ ret.outcome = "ok"
  /\ MarkCompleted(c)

\* the outer catch: 'Request was cancelled' is reported as the cancellation
\* of the step or chapter, any other error with its message
CompletionFailed(c) ==
  /\ Resumes(c)
  /\ ret.op = "atomic"
  /\ ret.outcome # "ok"
  /\ workflowState' =
       [workflowState EXCEPT
          !.isProcessing = FALSE,
          !.error = IF ret.error.message = Cancelled.message
                    THEN IF runs[c].kind = "step" THEN StepCancelled
                         ELSE ChapterCancelled
                    ELSE ret.error.message]
  /\ runs' = [runs EXCEPT ![c] = NoRun]
  /\ ret' = RunEnded(runs[c].kind,
                     IF ret.error.message = Cancelled.message THEN "cancelled"
                     ELSE "failed",
                     runs[c].cancelled)
  /\ UNCHANGED <<cache, storage, storageThrows, now, currentController, calls,
                 latest, timers>>

\* the network and the generator while the event loop is free to run them
Network(A) == EventLoopIdle /\ Client(A)

\* ------------------------------------------------------------------------
\* The App over the client: the user presses Process Step, Write Chapter,
\* the feedback buttons and Cancel while the provider answers
\* ------------------------------------------------------------------------

\* what the provider answers the App's requests with: the text AB, streamed
\* in two reads of which the first ends inside the first line, or in the
\* first choice of an atomic response
FlowBodies ==
  {<<SubSeq(FullBody, 1, 8), SubSeq(FullBody, 9, Len(FullBody))>>}

FlowAnswers == {AtomicBodyOf(<<"A", "B">>)}

InitFlow ==
  /\ storageThrows = FALSE
  /\ storage = NoItem
  /\ cache = loadCache(storage, storageThrows)
  /\ now = 0
  /\ currentController = 0
  /\ calls = [c \in Slots |-> IdleCall]
  /\ latest = 0
  /\ ret = NoRet
  /\ workflowState \in {InitialWorkflowState(stream) : stream \in BOOLEAN}
  /\ runs = [c \in Slots |-> NoRun]
  /\ timers = {}

NextFlow ==
  \/ \E c \in Slots : processStep(c)
  \/ \E c \in Slots : processChapter(c)
  \/ \E kind \in Kinds : handleFeedback(kind)
  \/ \E t \in timers, c \in Slots : TimerFires(t, c)
  \/ AppCancelCurrentRequest
  \/ \E c \in Slots : StreamCompleted(c)
  \/ \E c \in Slots, d \in Slots : StreamFallback(c, d)
  \/ \E c \in Slots : CompletionReturned(c)
  \/ \E c \in Slots : CompletionFailed(c)
  \/ \E c \in Slots : Network(AtomicResponse(c))
  \/ \E c \in Slots, data \in FlowAnswers : Network(AtomicJsonWith(c, data))
  \/ \E c \in Slots : Network(HttpError(c))
  \/ \E c \in Slots : Network(NetworkFailure(c))
  \/ \E c \in Slots : Network(AbortError(c))
  \/ \E c \in Slots : Network(StreamResponseFrom(c, FlowBodies))
  \/ \E c \in Slots : Network(StreamRead(c))
  \/ \E c \in Slots : Client(StreamResume(c))

SpecFlow == InitFlow /\ [][NextFlow]_vars

\* ------------------------------------------------------------------------
\* The client after every kind of stored item: none, a table, a text that
\* is not JSON, and the JSON of null, of a number and of a string
\* ------------------------------------------------------------------------

StoredItems ==
  PreviousItems \cup {CorruptItem, NullItem, NumberItem, StringItem}

InitLoad ==
  /\ storageThrows \in BOOLEAN
  /\ storage \in StoredItems
  /\ cache = loadCache(storage, storageThrows)
  /\ now = 0
  /\ currentController = 0
  /\ calls = [c \in Slots |-> IdleCall]
  /\ latest = 0
  /\ ret = NoRet
  /\ AppInit

NextLoad == Step({1}, ConcRequests, {0})

SpecLoad == InitLoad /\ [][NextLoad]_vars

\* ------------------------------------------------------------------------
\* The streaming decoder on its own: one streaming call over every response
\* text of the provider, delivered in every division into reads
\* ------------------------------------------------------------------------

MaxReads == 2

\* the texts a provider answers with, and the sequences of deltas it streams
\* them in (a delta may be empty)
ProviderDeltas ==
  {<< >>, <<<<"A">>>>, <<<<"A", "B">>>>, <<<<"A">>, <<"B">>>>,
   <<<<"A">>, << >>, <<"B">>>>}

\* the event stream of a sequence of deltas: one data line and a blank line
\* per delta, then data: [DONE] and a blank line
RECURSIVE DeltaEvents(_)
DeltaEvents(deltas) ==
  IF deltas = << >> THEN << >>
  ELSE DataLine(DeltaPayload(Head(deltas))) \o <<NL>> \o DeltaEvents(Tail(deltas))

EventStream(deltas) == DeltaEvents(deltas) \o DataLine(DoneToken) \o <<NL>>

\* the lines of a stream: a delta with its content, the sentinel, or a line
\* the protocol has no use for
DeltaItem(content) ==
  [kind |-> "delta", line |-> DataPrefix \o DeltaPayload(content),
   content |-> content]

DoneItem == [kind |-> "done", line |-> DataPrefix \o DoneToken, content |-> << >>]

OtherItem(line) == [kind |-> "other", line |-> line, content |-> << >>]

RECURSIVE ItemsText(_)
ItemsText(items) ==
  IF items = << >> THEN << >>
  ELSE Head(items).line \o <<NL>> \o ItemsText(Tail(items))

\* a stream with a comment line, a data line that is not JSON, a data line
\* without delta content and a blank line between two deltas
NoisyItems ==
  <<DeltaItem(<<"A">>), OtherItem(<<":", "k">>),
    OtherItem(DataPrefix \o <<"x">>), OtherItem(DataPrefix \o <<"{}">>),
    OtherItem(<< >>), DeltaItem(<<"B">>), DoneItem>>

NoisyStream == ItemsText(NoisyItems)

\* a stream whose body ends without the sentinel
UnfinishedStream ==
  DataLine(DeltaPayload(<<"A">>)) \o <<NL>> \o DataLine(DeltaPayload(<<"B">>))

\* a stream whose last line has no line terminator
UnterminatedStream ==
  DataLine(DeltaPayload(<<"A">>)) \o DataPrefix \o DeltaPayload(<<"B">>)

ResponseTexts ==
  {EventStream(deltas) : deltas \in ProviderDeltas}
    \cup {NoisyStream, UnfinishedStream, UnterminatedStream}

\* the ways reader.read() can deliver text in k reads
RECURSIVE ReadsOf(_, _)
ReadsOf(text, k) ==
  IF k = 1 THEN {<<text>>}
  ELSE UNION {{<<SubSeq(text, 1, i)>> \o rest :
                 rest \in ReadsOf(SubSeq(text, i + 1, Len(text)), k - 1)} :
              i \in 0..Len(text)}

DecoderBodies == UNION {ReadsOf(text, MaxReads) : text \in ResponseTexts}

\* the loop over a body delivered in a single read, the consumer taking
\* every chunk: r is what the line loop left behind
RECURSIVE Drain(_, _, _)
Drain(r, throwAt, yielded) ==
  IF r.st = "yield"
  THEN Drain(ProcessLines(r.rest, r.full, r.n, throwAt, r.called), throwAt,
             Append(yielded, r.chunk))
  ELSE [result |-> r.full, yielded |-> yielded, called |-> r.called,
        end |-> IF r.st = "sentinel" THEN "sentinel" ELSE "eof"]

SingleRead(text, throwAt) ==
  Drain(ProcessLines(SplitLines(text), << >>, 0, throwAt, << >>), throwAt,
        << >>)

InitStream == Init /\ ~storageThrows /\ storage = NoItem

NextStream ==
  \/ \E req \in ConcRequests, throwAt \in OnChunkThrowsAt :
       Client(chatCompletionStream(1, req, throwAt))
  \/ Client(StreamResponseFrom(1, DecoderBodies))
  \/ Client(StreamRead(1))
  \/ Client(StreamResume(1))
  \/ Client(HttpError(1))

SpecStream == InitStream /\ [][NextStream]_vars

\* ------------------------------------------------------------------------
\* The fingerprint on its own: generateCacheKey applied to conversations of
\* one or two messages with either property order, and to every temperature
\* ------------------------------------------------------------------------

MaxMessages == 2

KeyMessages ==
  [role : {"user", "assistant"}, content : {<<97>>},
   keys : {RoleFirst, ContentFirst}]

KeyMessageLists ==
  UNION {[1..n -> KeyMessages] : n \in 1..MaxMessages}

KeyTemperatures == {Undefined, Num(0), Num(1), NaN}

\* getCachedResponse and setCachedResponse compute the key of their arguments
generateCacheKeyCall(messages, temperature) ==
  /\ ret' = [Returned("generateCacheKey",
                      generateCacheKey(messages, temperature))
               EXCEPT !.req = [messages |-> messages,
                               temperature |-> temperature]]
  /\ UNCHANGED <<cache, storage, storageThrows, now, currentController,
                 calls, latest>>

NextKeys ==
  \E messages \in KeyMessageLists, temperature \in KeyTemperatures :
    Client(generateCacheKeyCall(messages, temperature))

SpecKeys == Init /\ [][NextKeys]_vars

\* ------------------------------------------------------------------------
\* Properties
\* ------------------------------------------------------------------------

\* 24 hours in milliseconds, as the properties state it
DayMs == 24 * 60 * 60 * 1000

\* the table holds an entry for the request's key that is younger than 24h
HasFreshEntry(req) ==
  /\ KeyOf(req) \in DOMAIN cache
  /\ now - cache[KeyOf(req)].timestamp < DayMs

\* the step settled a completion call (ret describes it)
SettledCall(r) == r.op \in {"atomic", "stream"}

\* the step was a cache hit of chatCompletion
CacheHit(r) == r.op = "atomic" /\ r.outcome = "ok" /\ ~r.net

\* C1: for every request whose key has an entry younger than 24h, whatever
\* text the entry holds, chatCompletion returns exactly that text and issues
\* no network call.
C1_FreshEntryIsServed ==
  [][\A c \in Slots, req \in Requests :
       (chatCompletion(c, req) /\ HasFreshEntry(req))
         => /\ CacheHit(ret')
            /\ ret'.result = cache[KeyOf(req)].content
            /\ UNCHANGED calls]_vars

\* C2: a lookup is a hit only when an entry exists for the key and
\* now - timestamp < 24h; on a stale or absent entry chatCompletion issues the
\* fetch; and the lookup never deletes or alters an entry. (A step of
\* chatCompletion hands its caller an outcome of chatCompletion or nothing
\* yet: the steps of the other methods are set aside first.)
C2_HitOnlyWhenFresh ==
  [][\A c \in Slots, req \in Requests :
       (ret'.op \in {"none", "atomic"} /\ chatCompletion(c, req))
         => /\ CacheHit(ret') => HasFreshEntry(req)
            /\ ~HasFreshEntry(req) =>
                 (calls'[c].pc = "fetch" /\ calls'[c].req = req)
            /\ UNCHANGED <<cache, storage>>]_vars

\* C2 witness: a chatCompletion is awaiting its fetch while the entry of its
\* key is exactly 24h old
C2_Witness ==
  \E c \in Slots :
    /\ calls[c].mode = "atomic"
    /\ calls[c].pc = "fetch"
    /\ KeyOf(calls[c].req) \in DOMAIN cache
    /\ now - cache[KeyOf(calls[c].req)].timestamp = DayMs

\* C3: after a successful completion that reached the network, the table
\* maps the request's key to the text just returned with the time of the
\* write, and every other key to what it held before.
C3_WriteReplacesEntry ==
  [][(SettledCall(ret') /\ ret'.outcome = "ok" /\ ret'.net)
       => cache' = [k \in (DOMAIN cache) \cup {KeyOf(ret'.req)} |->
                      IF k = KeyOf(ret'.req)
                      THEN [content |-> ret'.result, timestamp |-> now]
                      ELSE cache[k]]]_vars

\* C3 witness: a streaming completion has just replaced an older entry with a
\* different text, another key being cached too
C3_Witness ==
  /\ ret.op = "stream"
  /\ ret.outcome = "ok"
  /\ now > 0
  /\ Cardinality(DOMAIN cache) = 2
  /\ cache[KeyOf(ret.req)] = [content |-> <<"A">>, timestamp |-> now]

\* C4: the table and the persisted item change only in the write of a
\* successful completion that reached the network or in clearCache: cache
\* hits, failed and cancelled completions, cancelCurrentRequest,
\* isRequestInProgress, getCacheSize and fetchAvailableModels leave both
\* unchanged.
C4_OnlyWritesAndClearChangeCache ==
  [][(cache' # cache \/ storage' # storage)
       => \/ ret'.op = "clearCache"
          \/ SettledCall(ret') /\ ret'.outcome = "ok" /\ ret'.net]_vars

\* C4 witness: a completion has just failed while the table holds an entry
C4_Witness ==
  /\ SettledCall(ret)
  /\ ret.outcome = "failed"
  /\ cache # EmptyCache
  /\ storage # NoItem

\* the atomic call in slot c is suspended in an await on the network
AtomicAwaiting(c) == calls[c].mode = "atomic" /\ Awaiting(calls[c])

\* the call of slot c took a step (the mark that clearCache leaves on an
\* outstanding call is no step of the call)
CallSteps(c) == [calls'[c] EXCEPT !.cleared = calls[c].cleared] # calls[c]

\* C5 as stated: whenever cancelCurrentRequest runs while an atomic call is
\* awaiting the network, that call's network operation is aborted.
C5_CancelAbortsAwaitingAtomic ==
  [][\A c \in Slots :
       (cancelCurrentRequest /\ AtomicAwaiting(c)) => calls'[c].aborted]_vars

\* C5 amended: when cancelCurrentRequest runs while an atomic call is
\* awaiting the network and the client tracks that call's controller, the
\* call's network operation is aborted; an aborted atomic call leaves its
\* await only by throwing 'Request was cancelled', a message no generic
\* failure carries, and it changes neither the table nor the persisted item.
C5_CancelAbortsTrackedAtomic ==
  [][\A c \in Slots :
       /\ (cancelCurrentRequest /\ AtomicAwaiting(c) /\ currentController = c)
            => (calls'[c].aborted /\ AtomicAwaiting(c)')
       /\ (AtomicAwaiting(c) /\ calls[c].aborted /\ CallSteps(c))
            => /\ ret'.op = "atomic"
               /\ ret'.slot = c
               /\ ret'.outcome = "cancelled"
               /\ ret'.error.message = "Request was cancelled"
               /\ \A cause \in HttpFailures \cup {"SyntaxError", "TypeError"} :
                    Failed("atomic", cause).message # ret'.error.message
               /\ ~ret'.wrote
               /\ UNCHANGED <<cache, storage>>]_vars

\* C5 witness: an atomic call whose controller was aborted has just thrown
\* 'Request was cancelled' while the table holds an entry
C5_Witness ==
  /\ ret.op = "atomic"
  /\ ret.aborted
  /\ ret.outcome = "cancelled"
  /\ ret.error = Cancelled
  /\ cache # EmptyCache

\* C6: a streaming call whose controller was aborted by cancelCurrentRequest
\* between its start and its return settles as cancelled and writes no
\* cache entry.
C6_CancelledStreamFails ==
  (ret.op = "stream" /\ ret.aborted)
    => (ret.outcome = "cancelled" /\ ~ret.wrote)

\* C7: when no call that created a controller is still running, the tracked
\* controller is null and isRequestInProgress returns false, however the
\* calls left.
C7_ControllerReleasedOnExit ==
  (\A c \in Slots : ~InFlight(calls[c]))
    => /\ currentController = 0
       /\ ret.op = "isRequestInProgress" => ret.value = <<FALSE>>

\* C7 witness: the second of two overlapping calls has just returned its
\* text, the first having left before, and nothing is in flight
C7_Witness ==
  /\ SettledCall(ret)
  /\ ret.outcome = "ok"
  /\ ret.net
  /\ ret.second
  /\ \A c \in Slots : ~InFlight(calls[c])

\* C8: isRequestInProgress returns true exactly when some call that created
\* a controller has not yet returned, failed or been cancelled.
C8_ActiveIffCallInFlight ==
  ret.op = "isRequestInProgress"
    => (ret.value = <<TRUE>>
          <=> \E c \in Slots : InFlight(calls[c]) /\ ~calls[c].aborted)

\* C9: a cancelCurrentRequest issued while a call that started during
\* another call is the most recent one and still in flight aborts that call
\* and no other.
C9_CancelAbortsSecond ==
  [][\A c \in Slots :
       (cancelCurrentRequest /\ latest = c /\ calls[c].second
          /\ InFlight(calls[c]))
         => /\ calls'[c].aborted
            /\ \A d \in Slots \ {c} : calls'[d].aborted = calls[d].aborted]_vars

\* C10: requests with equal messages and temperature have the same key
\* whatever their model, baseUrl and apiKey, and a chatCompletion issued right
\* after a completion wrote the entry, with the same messages and temperature
\* but another model and provider, returns the written text with no fetch.
C10_ServedAcrossProviders ==
  [][\A c \in Slots, req \in Requests :
       (/\ SettledCall(ret) /\ ret.outcome = "ok" /\ ret.wrote
        /\ req.messages = ret.req.messages
        /\ req.temperature = ret.req.temperature
        /\ req.config # ret.req.config
        /\ chatCompletion(c, req))
         => /\ KeyOf(req) = KeyOf(ret.req)
            /\ CacheHit(ret')
            /\ ret'.result = ret.result]_vars

\* two conversations with the same roles and contents in the same order
DeepEqual(m1, m2) ==
  /\ Len(m1) = Len(m2)
  /\ \A i \in 1..Len(m1) :
       m1[i].role = m2[i].role /\ m1[i].content = m2[i].content

\* the step computed a fingerprint (ret describes it)
KeyComputed(r) == r.op = "generateCacheKey"

\* C11: two calls of generateCacheKey whose conversations are equal by
\* deep value (same roles and contents in the same order, however the
\* message objects were built) and whose temperatures are equal return the
\* same key.
C11_EqualInputsSameKey ==
  [][(/\ KeyComputed(ret) /\ KeyComputed(ret')
      /\ DeepEqual(ret.req.messages, ret'.req.messages)
      /\ ret.req.temperature = ret'.req.temperature)
       => ret'.value = ret.value]_vars

\* the three kinds of temperature the claim tells apart
TemperatureKind(t) ==
  IF ~t.def THEN "absent"
  ELSE IF t.finite /\ t.val = 0 THEN "zero"
  ELSE "other"

\* C12: for the same conversation, a call without temperature, a call with
\* temperature 0 and a call with any other number get pairwise different
\* keys.
C12_TemperatureKindsApart ==
  [][(/\ KeyComputed(ret) /\ KeyComputed(ret')
      /\ ret.req.messages = ret'.req.messages
      /\ TemperatureKind(ret.req.temperature)
           # TemperatureKind(ret'.req.temperature))
       => ret'.value # ret.value]_vars

\* C13: chatCompletionStream returns nothing from the cache: even with a
\* fresh entry for the request's key its first step issues the fetch and
\* leaves the table alone; and a streaming call changes the table or the
\* persisted item only in the step in which it returns. (A first step of
\* chatCompletionStream finds its slot free and hands its caller nothing yet
\* or the outcome of a streaming call: other steps are set aside first.)
C13_StreamSkipsCache ==
  [][/\ \A c \in Slots :
          (FreeSlot(c) /\ ret'.op \in {"none", "stream"})
            => \A req \in Requests, throwAt \in OnChunkThrowsAt :
                 chatCompletionStream(c, req, throwAt)
                   => /\ calls'[c].mode = "stream"
                      /\ calls'[c].pc = "fetch"
                      /\ ret' = NoRet
                      /\ UNCHANGED <<cache, storage>>
     /\ \A c \in Slots :
          (/\ calls[c].mode = "stream"
           /\ CallSteps(c)
           /\ (cache' # cache \/ storage' # storage))
            => /\ ret'.op = "stream"
               /\ ret'.outcome = "ok"
               /\ calls'[c] = IdleCall]_vars

\* C13 witness: a streaming call awaits its fetch although the table holds a
\* fresh entry with a text for its key
C13_Witness ==
  \E c \in Slots :
    /\ calls[c].mode = "stream"
    /\ calls[c].pc = "fetch"
    /\ Truthy(getCachedResponse(cache, calls[c].req, now))

\* the text of a body, whatever the reads that delivered it
RECURSIVE Concat(_)
Concat(reads) == IF reads = << >> THEN << >> ELSE Head(reads) \o Concat(Tail(reads))

\* what a settled streaming call handed to its caller
Outcome(r) ==
  [result |-> r.result, yielded |-> r.yielded, called |-> r.called,
   end |-> r.end]

StreamOk(r) == r.op = "stream" /\ r.outcome = "ok"

\* C15: a streaming call whose body arrived in several reads, cut anywhere,
\* yields the same chunks, passes the same contents to onChunk, ends at the
\* same place and returns the same text as over the same text in one read.
C15_ReadsDoNotMatter ==
  StreamOk(ret) => Outcome(ret) = SingleRead(Concat(ret.stream), ret.throwAt)

\* C15 witness: a call over two reads, the first of which ends in the middle
\* of the line of the second delta, has returned both deltas
C15_Witness ==
  /\ StreamOk(ret)
  /\ Len(ret.stream) = 2
  /\ Len(ret.stream[1]) = 17
  /\ ret.yielded = <<<<"A">>, <<"B">>>>
  /\ ret.end = "sentinel"

\* the lines of a text that the protocol recognises
IsSentinelLine(line) == StartsWithData(line) /\ Slice6(line) = DoneToken

IsDeltaLine(line) ==
  /\ StartsWithData(line)
  /\ ~IsSentinelLine(line)
  /\ Truthy(ParseDelta(Slice6(line)))

IsProtocolLine(line) == IsSentinelLine(line) \/ IsDeltaLine(line)

RECURSIVE BeforeSentinel(_)
BeforeSentinel(lines) ==
  IF lines = << >> THEN << >>
  ELSE IF IsSentinelLine(Head(lines)) THEN << >>
  ELSE <<Head(lines)>> \o BeforeSentinel(Tail(lines))

RECURSIVE ContentsOf(_)
ContentsOf(lines) ==
  IF lines = << >> THEN << >>
  ELSE <<ParseDelta(Slice6(Head(lines))).s>> \o ContentsOf(Tail(lines))

\* the content deltas of the data lines of a text, in the order of the
\* lines, up to the sentinel
SourceDeltas(text) ==
  ContentsOf(SelectSeq(BeforeSentinel(SplitLines(text)), IsDeltaLine))

IsDeltaItem(item) == item.kind = "delta"

NotOtherItem(item) == item.kind # "other"

RECURSIVE ItemContents(_)
ItemContents(items) ==
  IF items = << >> THEN << >>
  ELSE <<Head(items).content>> \o ItemContents(Tail(items))

\* C14: every content delta of a streaming call is passed to onChunk,
\* yielded and appended to the accumulator, once each: at any time the
\* chunks yielded are the contents passed to onChunk and concatenate to the
\* accumulator, and a returned call has yielded the deltas of the data lines
\* in the order of the lines.
C14_EachDeltaOnce ==
  /\ \A c \in Slots :
       calls[c].mode = "stream"
         => /\ calls[c].yielded = calls[c].called
            /\ Concat(calls[c].yielded) = calls[c].fullContent
  /\ StreamOk(ret)
       => /\ ret.yielded = ret.called
          /\ Concat(ret.yielded) = ret.result
          /\ ret.yielded = SourceDeltas(Concat(ret.stream))

\* C16 as stated: a streaming call that meets the sentinel caches the
\* accumulated text under its key and returns it, and a streaming call
\* writes the cache only then.
C16_WritesOnlyAtSentinel ==
  ret.op = "stream"
    => /\ ret.wrote <=> ret.end = "sentinel"
       /\ ret.end = "sentinel"
            => /\ ret.outcome = "ok"
               /\ ret.result = Concat(ret.called)
               /\ KeyOf(ret.req) \in DOMAIN cache
               /\ cache[KeyOf(ret.req)] = CacheEntry(ret.result, now)

\* C16 amended: a streaming call writes the cache exactly when it returns,
\* which it does at the sentinel or at the end of the response body, also
\* of a body that ends before the sentinel; it then caches the accumulated
\* text under its key and returns it; a call that throws writes nothing.
C16_WritesOnlyOnReturn ==
  ret.op = "stream"
    => /\ ret.wrote <=> ret.outcome = "ok"
       /\ ret.outcome = "ok" <=> ret.end \in {"sentinel", "eof"}
       /\ ret.outcome = "ok"
            => /\ ret.result = Concat(ret.called)
               /\ KeyOf(ret.req) \in DOMAIN cache
               /\ cache[KeyOf(ret.req)] = CacheEntry(ret.result, now)

\* C16 witness: a body that ended after one delta and without the sentinel
\* has been returned and cached
C16_Witness ==
  /\ StreamOk(ret)
  /\ ret.end = "eof"
  /\ ret.result = <<"A">>
  /\ cache[KeyOf(ret.req)] = CacheEntry(<<"A">>, now)

\* C17: lines without the data prefix, blank lines, data lines that are not
\* JSON and data lines without delta content change nothing: over a stream
\* with such lines between its deltas the call does not fail, the delta of
\* every data line before and after them is decoded, passed on and
\* accumulated, and the call hands its caller what it hands it for the
\* stream without those lines.
C17_BadLinesAreSkipped ==
  (ret.op = "stream" /\ ret.stream # << >>
     /\ Concat(ret.stream) = ItemsText(NoisyItems))
    => /\ ret.outcome = "ok"
       /\ ret.called = ItemContents(SelectSeq(NoisyItems, IsDeltaItem))
       /\ ret.result = Concat(ItemContents(SelectSeq(NoisyItems, IsDeltaItem)))
       /\ ret.end = "sentinel"
       /\ Outcome(ret)
            = SingleRead(ItemsText(SelectSeq(NoisyItems, NotOtherItem)),
                         ret.throwAt)

\* C17 witness: the stream with a comment line, a payload that is not JSON,
\* a payload without content and a blank line between its two deltas was
\* read in two pieces and both deltas were yielded
C17_Witness ==
  /\ StreamOk(ret)
  /\ Concat(ret.stream) = NoisyStream
  /\ ret.stream[1] # << >>
  /\ ret.stream[2] # << >>
  /\ ret.yielded = <<<<"A">>, <<"B">>>>
  /\ ret.end = "sentinel"

\* C18: when the provider streams, in any division into deltas, the text it
\* answers an atomic request with, chatCompletionStream returns and caches
\* the text chatCompletion extracts from the atomic response.
C18_ModesAgree ==
  StreamOk(ret)
    => \A deltas \in ProviderDeltas :
         Concat(ret.stream) = EventStream(deltas)
           => /\ ret.result = ExtractContent(AtomicBodyOf(Concat(deltas)))
              /\ cache[KeyOf(ret.req)].content
                   = ExtractContent(AtomicBodyOf(Concat(deltas)))

\* C18 witness: the text AB streamed as the deltas A, empty, B and read in
\* two pieces has been returned
C18_Witness ==
  /\ StreamOk(ret)
  /\ Concat(ret.stream) = EventStream(<<<<"A">>, << >>, <<"B">>>>)
  /\ ret.stream[1] # << >>
  /\ ret.stream[2] # << >>
  /\ ret.result = <<"A", "B">>

\* a step of a client whose table works: getCacheSize returns the number of
\* entries, the lookup of chatCompletion returns the text of a fresh entry
\* or goes on to the fetch, no completion fails on the table, and a
\* completion that returns after its fetch has written its entry
TableWorks ==
  /\ ret'.op = "getCacheSize"
       => /\ ret'.outcome # "failed"
          /\ ret'.value = <<Cardinality(DOMAIN cache)>>
  /\ \A c \in Slots, req \in Requests :
       chatCompletion(c, req)
         => \/ /\ CacheHit(ret')
               /\ HasFreshEntry(req)
               /\ ret'.result = cache[KeyOf(req)].content
            \/ calls'[c].pc = "fetch"
  /\ (SettledCall(ret') /\ ret'.outcome = "failed")
       => ret'.error.cause # CacheTypeError
  /\ (SettledCall(ret') /\ ret'.outcome = "ok" /\ ret'.net)
       => /\ KeyOf(ret'.req) \in DOMAIN cache'
          /\ cache'[KeyOf(ret'.req)] = CacheEntry(ret'.result, now)

\* the load of the stored item failed: getItem threw, or the text is no JSON
LoadFailed == storageThrows \/ storage.kind = "corrupt"

\* C19: when the storage throws on load or the stored text cannot be
\* parsed, the client starts with an empty table, and from then on
\* getCacheSize, lookups, completions and cache writes work.
C19_LoadFailureIsHarmless ==
  /\ LoadFailed => cache = EmptyCache
  /\ [][LoadFailed => TableWorks]_vars

\* C19 witness: after a load from a throwing storage holding a text that is
\* no JSON, a completion was served from the entry an earlier one wrote
C19_Witness ==
  /\ storageThrows
  /\ storage.kind = "corrupt"
  /\ CacheHit(ret)
  /\ ret.result = <<"A", "B">>

\* the stored text is the JSON of a value that is no table
Incompatible ==
  ~storageThrows /\ storage.kind \in {"null", "number", "string"}

\* C20: when the stored text parses to null, a number or a string, the
\* client starts with an empty table, and getCacheSize, lookups and
\* completions work as on an empty table without raising an error.
C20_IncompatibleBlobIsEmpty ==
  /\ Incompatible => cache = EmptyCache
  /\ [][Incompatible => TableWorks]_vars

\* C21: when persisting the table fails in the cache write of a successful
\* completion, the failure is not surfaced: the completion returns its text,
\* the entry is in the table although the stored item is unchanged, and the
\* entry is served as a hit to every later chatCompletion of the request
\* while it is fresh.
C21_UnsavedEntryIsServed ==
  [][storageThrows =>
       /\ \A c \in Slots, data \in AtomicBodies :
            (AtomicJsonWith(c, data) /\ data.json /\ data.hasChoices)
              => /\ ret'.outcome = "ok"
                 /\ ret'.result = ExtractContent(data)
                 /\ KeyOf(calls[c].req) \in DOMAIN cache'
                 /\ cache'[KeyOf(calls[c].req)].content = ret'.result
                 /\ storage' = storage
       /\ \A c \in Slots, req \in Requests :
            (chatCompletion(c, req) /\ HasFreshEntry(req))
              => /\ CacheHit(ret')
                 /\ ret'.result = cache[KeyOf(req)].content]_vars

\* C22 as stated: clearCache empties the table and removes the stored item;
\* right after it getCacheSize returns 0, storage holds no item under the
\* cache key, and chatCompletion of any request issues a fetch.
C22_ClearRemovesItem ==
  [][/\ ret'.op = "clearCache" => (cache' = EmptyCache /\ storage' = NoItem)
     /\ ret.op = "clearCache"
          => /\ (ret'.op = "getCacheSize" => ret'.value = <<0>>)
             /\ \A c \in Slots, req \in Requests :
                  chatCompletion(c, req)
                    => (calls'[c].pc = "fetch" /\ calls'[c].req = req)]_vars

\* C22 amended: clearCache empties the table and, unless the storage backend
\* throws on the removal, removes the stored item; right after it
\* getCacheSize returns 0 and chatCompletion of any request issues a fetch.
C22_ClearEmptiesTable ==
  [][/\ ret'.op = "clearCache"
          => (cache' = EmptyCache /\ (~storageThrows => storage' = NoItem))
     /\ ret.op = "clearCache"
          => /\ (ret'.op = "getCacheSize" => ret'.value = <<0>>)
             /\ \A c \in Slots, req \in Requests :
                  chatCompletion(c, req)
                    => (calls'[c].pc = "fetch" /\ calls'[c].req = req)]_vars

\* C22 witness: clearCache has just returned in a session that had issued a
\* completion, and it removed the stored item
C22_Witness ==
  /\ ret.op = "clearCache"
  /\ ret.value = <<"returned">>
  /\ latest # 0
  /\ storage = NoItem
  /\ cache = EmptyCache

\* C23: no storage failure crosses the client boundary: with a storage
\* backend that throws, construction leaves a working table, the cache write
\* of a successful completion does not make the completion fail, and
\* clearCache returns instead of throwing.
C23_StorageFailuresStayInside ==
  storageThrows
    => /\ IsObjectCache(cache)
       /\ ret.op = "clearCache" => ret.value = <<"returned">>
       /\ (SettledCall(ret) /\ ret.wrote)
            => (ret.outcome = "ok" /\ ret.error = NoError)

\* C24: when the response of a completion, atomic or streaming, is not ok,
\* the call fails with an error that carries the response's status code and
\* the text of its body unchanged; no chunk was yielded, onChunk was not
\* called and the cache and the stored item are untouched.
C24_HttpErrorCarriesStatusAndBody ==
  [][\A c \in Slots :
       HttpError(c)
         => /\ ret'.op = calls[c].mode
            /\ ret'.outcome = "failed"
            /\ ret'.error.cause \in HttpFailures
            /\ ret'.error.status = calls[c].status
            /\ ret'.error.body = calls[c].body
            /\ [status |-> ret'.error.status, body |-> ret'.error.body]
                 \in HttpResponses
            /\ ~ret'.wrote
            /\ ret'.yielded = << >>
            /\ ret'.called = << >>
            /\ UNCHANGED <<cache, storage>>]_vars

\* C24 witness: a streaming call failed on a 500 response with a body
C24_Witness ==
  /\ ret.op = "stream"
  /\ ret.outcome = "failed"
  /\ ret.error.status = 500
  /\ ret.error.body = <<"overloaded">>

\* C25: when the body of an ok atomic response is JSON, chatCompletion
\* returns the first choice's message content, and the empty string when the
\* response has no choices field, no choice, or a first choice without
\* message or content; it does not fail.
C25_MissingContentIsEmpty ==
  [][\A c \in Slots, data \in AtomicBodies :
       (AtomicJsonWith(c, data) /\ data.json)
         => /\ ret'.outcome = "ok"
            /\ ret'.result =
                 IF /\ data.hasChoices
                    /\ Len(data.choices) > 0
                    /\ data.choices[1].hasMessage
                    /\ data.choices[1].content # Null
                 THEN data.choices[1].content.s
                 ELSE << >>]_vars

\* C28: in a streaming call the accumulator is at every point the
\* concatenation of the chunks yielded so far, also when onChunk throws for
\* a chunk, and so is the text that the call returns and caches.
C28_AccumulatorIsYieldedText ==
  /\ \A c \in Slots :
       calls[c].mode = "stream"
         => calls[c].fullContent = Concat(calls[c].yielded)
  /\ StreamOk(ret)
       => /\ ret.result = Concat(ret.yielded)
          /\ (ret.wrote /\ KeyOf(ret.req) \in DOMAIN cache)
               => cache[KeyOf(ret.req)].content = Concat(ret.yielded)

\* response bodies as the lines they are made of: two deltas separated by a
\* blank line, two deltas on adjacent lines, and two deltas followed by the
\* sentinel
BodyItems ==
  {<<DeltaItem(<<"A">>), OtherItem(<< >>), DeltaItem(<<"B">>)>>,
   <<DeltaItem(<<"A">>), DeltaItem(<<"B">>)>>,
   <<DeltaItem(<<"A">>), OtherItem(<< >>), DeltaItem(<<"B">>), OtherItem(<< >>),
     DoneItem, OtherItem(<< >>)>>}

\* the text of the lines when the last of them has no line terminator
UnterminatedText(items) ==
  SubSeq(ItemsText(items), 1, Len(ItemsText(items)) - 1)

\* C29: no delta is lost at the end of a stream: whether or not the last
\* line of the body ends with a newline, every delta line before the
\* sentinel or the end of the body is yielded and is part of the text
\* returned.
C29_LastLineIsDecoded ==
  \A items \in BodyItems :
    (StreamOk(ret) /\ ret.throwAt = 0 /\ ret.stream # << >>
       /\ Concat(ret.stream) \in {ItemsText(items), UnterminatedText(items)})
      => /\ ret.yielded = ItemContents(SelectSeq(items, IsDeltaItem))
         /\ ret.result = Concat(ItemContents(SelectSeq(items, IsDeltaItem)))

\* C30: a completion that was outstanding when clearCache ran does not put
\* an entry into the table or a stored item back when it settles: after
\* clearCache the table stays empty until a completion that started after
\* it succeeds.
C30_ClearedCallsDoNotWrite ==
  [][(SettledCall(ret') /\ ret'.cleared)
       => (~ret'.wrote /\ UNCHANGED <<cache, storage>>)]_vars

\* the completion requests that are in flight and were not aborted
LiveRequests == {c \in Slots : InFlight(calls[c]) /\ ~calls[c].aborted}

\* C26: with config.stream set, once the user has cancelled a step or
\* chapter in progress, its invocation issues no further completion
\* request, does not mark the step or chapter completed, and ends with
\* isProcessing reset and a cancellation as the error.
C26_CancelledRunStops ==
  [][\A c \in Slots :
       (workflowState.stream /\ runs[c].kind # "none" /\ runs[c].cancelled)
         => /\ \A d \in Slots : ~StreamFallback(c, d)
            /\ ~StreamCompleted(c)
            /\ ~CompletionReturned(c)
            /\ (ret'.op \in Kinds /\ runs'[c].kind = "none")
                 => /\ ret'.outcome = "cancelled"
                    /\ ~workflowState'.isProcessing
                    /\ workflowState'.error
                         \in {StepCancelled, ChapterCancelled, CancelledByUser}]_vars

\* C27: whatever the user does with Process Step, Write Chapter, the
\* feedback buttons and Cancel, at most one completion request of the App
\* is in flight at any time.
C27_SingleFlight == Cardinality(LiveRequests) <= 1

====
